---------------------------- MODULE Spec2Model ----------------------------
(***************************************************************************)
(* Weighted rendezvous hashing (package rendezvous, rendezvous.go).        *)
(*                                                                         *)
(* A Ring is a name-sorted slice of nodes, a shared resettable Hash64 and  *)
(* a sync.RWMutex.  The module models                                      *)
(*   - the 64-bit integer arithmetic of the hash functions exactly, on     *)
(*     little-endian sequences of eight bytes (TLC integers are 32 bits);  *)
(*   - strings as sequences of bytes, compared as Go compares strings;     *)
(*   - weights as integers in tenths (1.0 is 10);                          *)
(*   - float64 scores as a sign/infinity/NaN tag plus a fraction w / L,    *)
(*     where L is -log2(h / 2^64) in fixed point (LogBits fraction bits).  *)
(* Spec runs whole operations one after another on one ring; SpecConc runs *)
(* the operations of several goroutines step by step under the RWMutex,    *)
(* and SpecConcFair adds the fairness of the scheduler and of the mutex;   *)
(* SpecScore applies computeScore to inputs from the edges of its domain;  *)
(* SpecFair is the key-counting loop of TestRing_Lookup.                   *)
(***************************************************************************)
EXTENDS Integers, Sequences, FiniteSets, TLC

(***************************************************************************)
(* uint64 arithmetic: a value is <<b0, ..., b7>>, b0 the low byte.         *)
(***************************************************************************)
U64(b7, b6, b5, b4, b3, b2, b1, b0) == <<b0, b1, b2, b3, b4, b5, b6, b7>>

Zero64 == U64(0, 0, 0, 0, 0, 0, 0, 0)

\* byte i (0 is the low byte) of x, 0 outside the 64 bits
ByteAt(x, i) == IF i >= 0 /\ i <= 7 THEN x[i + 1] ELSE 0

Pow2(n) == 2 ^ n

RECURSIVE XorBits(_, _)
XorBits(a, b) ==
    IF a = 0 THEN b
    ELSE IF b = 0 THEN a
    ELSE ((a + b) % 2) + 2 * XorBits(a \div 2, b \div 2)

\* a ^ b on bytes, from the table of a ^ b on half bytes
XorNibble == [a \in 0..15 |-> [b \in 0..15 |-> XorBits(a, b)]]

XorInt(a, b) ==
    XorNibble[a % 16][b % 16] + 16 * XorNibble[a \div 16][b \div 16]

\* a ^ b
Xor64(a, b) ==
    <<XorInt(a[1], b[1]), XorInt(a[2], b[2]), XorInt(a[3], b[3]),
      XorInt(a[4], b[4]), XorInt(a[5], b[5]), XorInt(a[6], b[6]),
      XorInt(a[7], b[7]), XorInt(a[8], b[8])>>

\* byte i of x >> s
ShrByte(x, s, i) ==
    (ByteAt(x, i + s \div 8) \div Pow2(s % 8))
    + (ByteAt(x, i + 1 + s \div 8) % Pow2(s % 8)) * Pow2(8 - (s % 8))

\* x >> s
Shr64(x, s) ==
    <<ShrByte(x, s, 0), ShrByte(x, s, 1), ShrByte(x, s, 2), ShrByte(x, s, 3),
      ShrByte(x, s, 4), ShrByte(x, s, 5), ShrByte(x, s, 6), ShrByte(x, s, 7)>>

\* byte i of x << s
ShlByte(x, s, i) ==
    ((ByteAt(x, i - s \div 8) * Pow2(s % 8)) % 256)
    + (ByteAt(x, i - 1 - s \div 8) \div Pow2(8 - (s % 8)))

\* x << s, the bits shifted out of the 64 dropped
Shl64(x, s) ==
    <<ShlByte(x, s, 0), ShlByte(x, s, 1), ShlByte(x, s, 2), ShlByte(x, s, 3),
      ShlByte(x, s, 4), ShlByte(x, s, 5), ShlByte(x, s, 6), ShlByte(x, s, 7)>>

\* x * y, wrapping at 2^64: the schoolbook product by columns, ck the sum of
\* column k and of the carry out of column k - 1
Mul64(x, y) ==
    LET c0 == x[1]*y[1]
        c1 == x[1]*y[2] + x[2]*y[1] + c0 \div 256
        c2 == x[1]*y[3] + x[2]*y[2] + x[3]*y[1] + c1 \div 256
        c3 == x[1]*y[4] + x[2]*y[3] + x[3]*y[2] + x[4]*y[1] + c2 \div 256
        c4 == x[1]*y[5] + x[2]*y[4] + x[3]*y[3] + x[4]*y[2] + x[5]*y[1]
              + c3 \div 256
        c5 == x[1]*y[6] + x[2]*y[5] + x[3]*y[4] + x[4]*y[3] + x[5]*y[2]
              + x[6]*y[1] + c4 \div 256
        c6 == x[1]*y[7] + x[2]*y[6] + x[3]*y[5] + x[4]*y[4] + x[5]*y[3]
              + x[6]*y[2] + x[7]*y[1] + c5 \div 256
        c7 == x[1]*y[8] + x[2]*y[7] + x[3]*y[6] + x[4]*y[5] + x[5]*y[4]
              + x[6]*y[3] + x[7]*y[2] + x[8]*y[1] + c6 \div 256
    IN  <<c0 % 256, c1 % 256, c2 % 256, c3 % 256,
          c4 % 256, c5 % 256, c6 % 256, c7 % 256>>

\* a >= b as unsigned integers
RECURSIVE Geq64From(_, _, _)
Geq64From(a, b, i) ==
    IF i = 0 THEN TRUE
    ELSE IF a[i] # b[i] THEN a[i] > b[i]
    ELSE Geq64From(a, b, i - 1)

Geq64(a, b) == Geq64From(a, b, 8)

(***************************************************************************)
(* hash/fnv New64a, the Hash64 that New() installs: Reset, Write, Sum64.   *)
(***************************************************************************)
FnvOffset64 == U64(\hcb, \hf2, \h9c, \he4, \h84, \h22, \h23, \h25)

FnvPrime64 == U64(\h00, \h00, \h01, \h00, \h00, \h00, \h01, \hb3)

\* one byte written to the running FNV-1a state
FnvWriteByte(state, c) ==
    Mul64([state EXCEPT ![1] = XorInt(state[1], c)], FnvPrime64)

RECURSIVE FnvWrite(_, _)
FnvWrite(state, str) ==
    IF str = << >> THEN state
    ELSE FnvWrite(FnvWriteByte(state, Head(str)), Tail(str))

(***************************************************************************)
(* combineHashes: the xorshift* mix.                                       *)
(***************************************************************************)
MixMultiplier == U64(\h25, \h45, \hF4, \h91, \h4F, \h6C, \hDD, \h1D)

\* x ^= x >> s
XorShr(x, s) == Xor64(x, Shr64(x, s))

\* x ^= x << s
XorShl(x, s) == Xor64(x, Shl64(x, s))

combineHashes(a, b) ==
    Mul64(XorShr(XorShl(XorShr(Xor64(a, b), 12), 25), 27), MixMultiplier)

(***************************************************************************)
(* computeScore: -nodeWeight / math.Log(float64(h) / float64(MaxUint64)).  *)
(* float64(MaxUint64) is 2^64, and float64(h) is 2^64 as well for every h  *)
(* from RoundsToOne up (53-bit mantissa, round to nearest even), so the    *)
(* quotient is exactly 1 there and its logarithm +0.  Below that the       *)
(* logarithm is negative; it is -Inf for h = 0.                            *)
(***************************************************************************)
LogBits == 10

RoundsToOne == U64(\hFF, \hFF, \hFF, \hFF, \hFF, \hFF, \hFC, \h00)

RECURSIVE BitLen(_)
BitLen(n) == IF n = 0 THEN 0 ELSE 1 + BitLen(n \div 2)

RECURSIVE TopByte(_, _)
TopByte(h, i) == IF i = 0 \/ ByteAt(h, i) # 0 THEN i ELSE TopByte(h, i - 1)

\* the fraction bits of log2(y / 2^14), 2^14 <= y < 2^15, by repeated squaring
RECURSIVE LogFrac(_, _)
LogFrac(y, n) ==
    IF n = 0 THEN 0
    ELSE LET y2 == (y * y) \div Pow2(14)
         IN  IF y2 >= Pow2(15)
             THEN Pow2(n - 1) + LogFrac(y2 \div 2, n - 1)
             ELSE LogFrac(y2, n - 1)

\* -log2(h / 2^64) in units of 2^-LogBits, for 0 < h < RoundsToOne; the
\* logarithm of a float64 below 1 is never 0, so at least one unit
NegLog2(h) ==
    LET t  == TopByte(h, 7)
        bl == BitLen(ByteAt(h, t))
        v  == ByteAt(h, t) * 65536 + ByteAt(h, t - 1) * 256 + ByteAt(h, t - 2)
        m  == v \div Pow2(bl + 1)
        l  == (64 - (8 * t + bl - 1)) * Pow2(LogBits) - LogFrac(m, LogBits)
    IN  IF l = 0 THEN 1 ELSE l

\* float64 values: a fraction num / den with den > 0, an infinity or NaN
Fin(num, den) == [kind |-> "fin", num |-> num, den |-> den]
PosInf == [kind |-> "+inf", num |-> 1, den |-> 0]
NegInf == [kind |-> "-inf", num |-> -1, den |-> 0]
NaN == [kind |-> "nan", num |-> 0, den |-> 0]

\* a > b on float64: false whenever a NaN is compared
FloatGreater(a, b) ==
    CASE a.kind = "nan" \/ b.kind = "nan" -> FALSE
      [] a.kind = "+inf" -> b.kind # "+inf"
      [] a.kind = "-inf" -> FALSE
      [] b.kind = "+inf" -> FALSE
      [] b.kind = "-inf" -> TRUE
      [] OTHER -> a.num * b.den > b.num * a.den

\* a score that clamps h = 0 to the smallest positive value, h = 1
scoreOf_ClampZero(h, nodeWeight) ==
    IF h = Zero64 THEN Fin(nodeWeight, 64 * Pow2(LogBits))
    ELSE IF Geq64(h, RoundsToOne)
    THEN (IF nodeWeight > 0 THEN NegInf
          ELSE IF nodeWeight < 0 THEN PosInf
          ELSE NaN)
    ELSE Fin(nodeWeight, NegLog2(h))

\* -nodeWeight / math.Log(float64(h) / float64(math.MaxUint64))
scoreOf(h, nodeWeight) ==
    IF h = Zero64 THEN Fin(0, 1)
    ELSE IF Geq64(h, RoundsToOne)
    THEN (IF nodeWeight > 0 THEN NegInf
          ELSE IF nodeWeight < 0 THEN PosInf
          ELSE NaN)
    ELSE Fin(nodeWeight, NegLog2(h))

\* a score that ignores the node's weight
computeScore_Unweighted(keyHash, nodeHash, nodeWeight) ==
    scoreOf(combineHashes(keyHash, nodeHash), 10)

computeScore(keyHash, nodeHash, nodeWeight) ==
    scoreOf(combineHashes(keyHash, nodeHash), nodeWeight)

(***************************************************************************)
(* Strings are sequences of bytes.                                         *)
(***************************************************************************)
RECURSIVE StrGeq(_, _)
StrGeq(s, t) ==
    IF t = << >> THEN TRUE
    ELSE IF s = << >> THEN FALSE
    ELSE IF Head(s) # Head(t) THEN Head(s) > Head(t)
    ELSE StrGeq(Tail(s), Tail(t))

EmptyString == << >>

(***************************************************************************)
(* Bounds of the model.                                                    *)
(***************************************************************************)
NumNames == 3
MaxTopN == 3
\* SpecConc: the number of operations the goroutines call in one run
MaxCalls == 3

str_a == <<97>>
str_b == <<98>>
str_c == <<99>>
str_d == <<100>>
str_e == <<101>>
str_foo == <<102, 111, 111>>

NameList == <<str_a, str_b, str_c, str_d, str_e>>
Names == {NameList[i] : i \in 1..NumNames}
\* lookup keys: one that is no node name, one that is the name "a"
Keys == {str_foo, str_a}
\* 1.0 is 10
defaultWeight == 10
\* 0.5, 1.0 and the zero weight that AddWithWeight accepts unchecked
Weights == {0, 5, defaultWeight}
TopNs == -1..MaxTopN

VARIABLES
    nodes,      \* Ring.nodes: the sequence of Node records (or nil slots)
    hash,       \* Ring.hash: the running state of the shared Hash64
    last,       \* the operation that ran last, its arguments, the ring before it, its result
    mutex,      \* Ring.mutex: [writer |-> goroutine or None, readers |-> set of goroutines]
    pc,         \* per goroutine: the statement it is at
    local,      \* per goroutine: the operation it runs and its local variables
    calls,      \* the number of operations called so far by the goroutines
    allocs      \* TestRing_Lookup: per node name, the number of keys mapped to it

vars == <<nodes, hash, last, mutex, pc, local, calls, allocs>>

(***************************************************************************)
(* Go slices and the Hash64 interface.                                     *)
(***************************************************************************)
Min(a, b) == IF a <= b THEN a ELSE b

Nil == [nil |-> TRUE]

Node(name, h, weight) == [name |-> name, hash |-> h, weight |-> weight]

\* element i of a slice, i counted from 0 as in Go
At(s, i) == s[i + 1]

\* copy(s[dlo:dhi], s[slo:shi]): min(len(dst), len(src)) elements, as memmove
Copy(s, dlo, dhi, slo, shi) ==
    LET n == Min(dhi - dlo, shi - slo)
    IN  [i \in 1..Len(s) |->
            IF i - 1 >= dlo /\ i - 1 < dlo + n THEN s[slo + (i - 1 - dlo) + 1]
            ELSE s[i]]

\* hash.Reset(), io.WriteString(hash, str), hash.Sum64() of fnv.New64a()
\* a Reset that leaves the running state as it is
Reset_Keep(h) == h

Reset(h) == FnvOffset64

\* FnvWrite from the reset state, tabulated once for the model's strings
fnvTable == [str \in Names \cup Keys |-> FnvWrite(FnvOffset64, str)]

WriteString(h, str) ==
    IF h = FnvOffset64 /\ str \in DOMAIN fnvTable THEN fnvTable[str]
    ELSE FnvWrite(h, str)

Sum64(h) == h

\* the state computeHash leaves the hasher in, and the value it returns
hashAfter(h, name) == WriteString(Reset(h), name)
computeHash(h, name) == Sum64(hashAfter(h, name))

\* cmp with > where the code has >=
cmp_Greater(ns, name, i) ==
    StrGeq(At(ns, i).name, name) /\ At(ns, i).name # name

\* cmp(name)(i)
cmp(ns, name, i) == StrGeq(At(ns, i).name, name)

\* sort.Search(n, f): the least i in [0, n) with f(i), or n
RECURSIVE SearchFrom(_, _, _, _)
SearchFrom(ns, name, i, j) ==
    IF i < j
    THEN LET h == (i + j) \div 2
         IN  IF ~cmp(ns, name, h) THEN SearchFrom(ns, name, h + 1, j)
             ELSE SearchFrom(ns, name, i, h)
    ELSE i

Search(ns, name) == SearchFrom(ns, name, 0, Len(ns))

(***************************************************************************)
(* The operations, as functions of the ring they run on.                   *)
(***************************************************************************)
\* AddWithWeight that returns at once when the name is present
AddWithWeightNodes_KeepsWeight(ns, h, name, weight) ==
    LET ix == Search(ns, name)
    IN  IF ix < Len(ns) /\ At(ns, ix).name = name
        THEN ns
        ELSE LET n        == Node(name, computeHash(h, name), weight)
                 appended == Append(ns, Nil)
                 shifted  == Copy(appended, ix + 1, Len(appended), ix, Len(appended))
             IN  [shifted EXCEPT ![ix + 1] = n]

\* AddWithWeight without the test for a node of that name
AddWithWeightNodes_AlwaysInserts(ns, h, name, weight) ==
    LET ix       == Search(ns, name)
        n        == Node(name, computeHash(h, name), weight)
        appended == Append(ns, Nil)
        shifted  == Copy(appended, ix + 1, Len(appended), ix, Len(appended))
    IN  [shifted EXCEPT ![ix + 1] = n]

\* AddWithWeight: the node slice and the hasher state when it returns
AddWithWeightNodes(ns, h, name, weight) ==
    LET ix == Search(ns, name)
    IN  IF ix < Len(ns) /\ At(ns, ix).name = name
        THEN [ns EXCEPT ![ix + 1].weight = weight]
        ELSE LET n        == Node(name, computeHash(h, name), weight)
                 appended == Append(ns, Nil)
                 shifted  == Copy(appended, ix + 1, Len(appended), ix, Len(appended))
             IN  [shifted EXCEPT ![ix + 1] = n]

AddWithWeightHash(ns, h, name) ==
    LET ix == Search(ns, name)
    IN  IF ix < Len(ns) /\ At(ns, ix).name = name THEN h
        ELSE hashAfter(h, name)

\* Remove without the test of the name found at ix
RemoveNodes_NoNameCheck(ns, name) ==
    LET ix == Search(ns, name)
    IN  IF ix = Len(ns) THEN ns
        ELSE SubSeq(Copy(ns, 0, ix, 0, ix + 1), 1, Len(ns) - 1)

RemoveNodes(ns, name) ==
    LET ix == Search(ns, name)
    IN  IF ix = Len(ns) THEN ns
        ELSE IF At(ns, ix).name = name
        THEN SubSeq(Copy(ns, 0, ix, 0, ix + 1), 1, Len(ns) - 1)
        ELSE ns

ContainsResult(ns, name) == \E i \in 1..Len(ns) : ns[i].name = name

WeightResult(ns, name) ==
    LET ix == Search(ns, name)
    IN  IF ix = Len(ns) THEN 0 ELSE At(ns, ix).weight

ListResult(ns) == [i \in 1..Len(ns) |-> ns[i].name]

\* sort.Slice on fewer than 12 elements is an insertion sort:
\* for i := 1; i < n; i++ { for j := i; j > 0 && less(j, j-1); j-- { swap } }
\* a comparison that sorts by score ascending
less_Ascending(s, i, j) == FloatGreater(At(s, j).score, At(s, i).score)

less(s, i, j) == FloatGreater(At(s, i).score, At(s, j).score)

Swap(s, i, j) == [s EXCEPT ![i + 1] = At(s, j), ![j + 1] = At(s, i)]

RECURSIVE SinkDown(_, _)
SinkDown(s, j) ==
    IF j > 0 /\ less(s, j, j - 1) THEN SinkDown(Swap(s, j, j - 1), j - 1) ELSE s

RECURSIVE InsertionSortFrom(_, _)
InsertionSortFrom(s, i) ==
    IF i < Len(s) THEN InsertionSortFrom(SinkDown(s, i), i + 1) ELSE s

SortSlice(s) == InsertionSortFrom(s, 1)

\* computeScore, tabulated once for the hashes of the model's keys and names
\* (any other arguments are computed on the spot)
scoreTable ==
    [x \in {<<computeHash(FnvOffset64, key), computeHash(FnvOffset64, name), weight>> :
                key \in Keys, name \in Names, weight \in Weights}
        |-> computeScore(x[1], x[2], x[3])]

score(keyHash, nodeHash, nodeWeight) ==
    IF <<keyHash, nodeHash, nodeWeight>> \in DOMAIN scoreTable
    THEN scoreTable[<<keyHash, nodeHash, nodeWeight>>]
    ELSE computeScore(keyHash, nodeHash, nodeWeight)

\* a scoring loop that mixes the key with the node's position, not its hash
RECURSIVE ScoredFrom_ByIndex(_, _, _)
ScoredFrom_ByIndex(ns, keyHash, i) ==
    IF i >= Len(ns) THEN << >>
    ELSE <<[node  |-> At(ns, i),
            score |-> computeScore(keyHash, U64(0, 0, 0, 0, 0, 0, 0, i + 1),
                                   At(ns, i).weight)]>>
         \o ScoredFrom_ByIndex(ns, keyHash, i + 1)

\* for _, node := range r.nodes { scoredNodes = append(scoredNodes, ...) }
RECURSIVE ScoredFrom(_, _, _)
ScoredFrom(ns, keyHash, i) ==
    IF i >= Len(ns) THEN << >>
    ELSE <<[node  |-> At(ns, i),
            score |-> score(keyHash, At(ns, i).hash, At(ns, i).weight)]>>
         \o ScoredFrom(ns, keyHash, i + 1)

ScoredNodes(ns, keyHash) == ScoredFrom(ns, keyHash, 0)

\* for _, namedNode := range scoredNodes { names = append(names, ...) }
RECURSIVE NamesFrom(_, _)
NamesFrom(scoredNodes, i) ==
    IF i >= Len(scoredNodes) THEN << >>
    ELSE <<At(scoredNodes, i).node.name>> \o NamesFrom(scoredNodes, i + 1)

\* the ranking LookupAll builds from the key's hash
Ranked(ns, keyHash) == NamesFrom(SortSlice(ScoredNodes(ns, keyHash)), 0)

LookupAllResult(ns, h, key) == Ranked(ns, computeHash(h, key))

\* a result, or the run-time panic of a slice expression out of range
Ok(v) == [panic |-> FALSE, val |-> v]
Panic == [panic |-> TRUE, val |-> << >>]

\* names[:n]; LookupTopN never asks for more than len(names)
SliceTo(names, n) == IF n < 0 \/ n > Len(names) THEN Panic ELSE Ok(SubSeq(names, 1, n))

\* LookupTopN without the test of len(names) against n
LookupTopNResult_NoGuard(ns, h, key, n) ==
    SliceTo(LookupAllResult(ns, h, key), n)

LookupTopNResult(ns, h, key, n) ==
    LET names == LookupAllResult(ns, h, key)
    IN  IF Len(names) >= n THEN SliceTo(names, n) ELSE Ok(names)

LookupResult(ns, h, key) ==
    LET names == LookupTopNResult(ns, h, key, 1)
    IN  IF names.panic THEN Panic
        ELSE IF Len(names.val) > 0 THEN Ok(At(names.val, 0))
        ELSE Ok(EmptyString)

LenResult(ns) == Len(ns)

(***************************************************************************)
(* Spec: one caller, whole operations.                                     *)
(***************************************************************************)
None == "none"
Goroutines == {"g1", "g2"}

\* a goroutine that runs no operation
Idle == [op |-> "none", arg |-> EmptyString, weight |-> 0, ix |-> 0,
         tmp |-> Zero64, sum |-> Zero64, res |-> << >>]

Called(op, arg, w, n, res) ==
    [op |-> op, arg |-> arg, w |-> w, n |-> n, pre |-> nodes, res |-> res]

Init ==
    /\ nodes = << >>
    /\ hash = FnvOffset64
    /\ last = [op |-> "New", arg |-> EmptyString, w |-> 0, n |-> 0,
               pre |-> << >>, res |-> << >>]
    /\ mutex = [writer |-> None, readers |-> {}]
    /\ pc = [g \in Goroutines |-> "idle"]
    /\ local = [g \in Goroutines |-> Idle]
    /\ calls = 0
    /\ allocs = << >>

ConcUnchanged == UNCHANGED <<mutex, pc, local, calls, allocs>>

AddWithWeight(name, weight) ==
    /\ nodes' = AddWithWeightNodes(nodes, hash, name, weight)
    /\ hash' = AddWithWeightHash(nodes, hash, name)
    /\ last' = Called("AddWithWeight", name, weight, 0, << >>)
    /\ ConcUnchanged

Add(name) ==
    /\ nodes' = AddWithWeightNodes(nodes, hash, name, defaultWeight)
    /\ hash' = AddWithWeightHash(nodes, hash, name)
    /\ last' = Called("Add", name, defaultWeight, 0, << >>)
    /\ ConcUnchanged

Remove(name) ==
    /\ nodes' = RemoveNodes(nodes, name)
    /\ last' = Called("Remove", name, 0, 0, << >>)
    /\ UNCHANGED hash
    /\ ConcUnchanged

Contains(name) ==
    /\ last' = Called("Contains", name, 0, 0, ContainsResult(nodes, name))
    /\ UNCHANGED <<nodes, hash>>
    /\ ConcUnchanged

Weight(name) ==
    /\ last' = Called("Weight", name, 0, 0, WeightResult(nodes, name))
    /\ UNCHANGED <<nodes, hash>>
    /\ ConcUnchanged

List ==
    /\ last' = Called("List", EmptyString, 0, 0, ListResult(nodes))
    /\ UNCHANGED <<nodes, hash>>
    /\ ConcUnchanged

Len_ ==
    /\ last' = Called("Len", EmptyString, 0, 0, LenResult(nodes))
    /\ UNCHANGED <<nodes, hash>>
    /\ ConcUnchanged

LookupAll(key) ==
    /\ last' = Called("LookupAll", key, 0, 0, LookupAllResult(nodes, hash, key))
    /\ hash' = hashAfter(hash, key)
    /\ UNCHANGED nodes
    /\ ConcUnchanged

LookupTopN(key, n) ==
    /\ last' = Called("LookupTopN", key, 0, n, LookupTopNResult(nodes, hash, key, n))
    /\ hash' = hashAfter(hash, key)
    /\ UNCHANGED nodes
    /\ ConcUnchanged

Lookup(key) ==
    /\ last' = Called("Lookup", key, 0, 0, LookupResult(nodes, hash, key))
    /\ hash' = hashAfter(hash, key)
    /\ UNCHANGED nodes
    /\ ConcUnchanged

Next ==
    \/ \E name \in Names : Add(name)
    \/ \E name \in Names, weight \in Weights : AddWithWeight(name, weight)
    \/ \E name \in Names : Remove(name)
    \/ \E name \in Names : Contains(name)
    \/ \E name \in Names : Weight(name)
    \/ List
    \/ Len_
    \/ \E key \in Keys : LookupAll(key)
    \/ \E key \in Keys, n \in TopNs : LookupTopN(key, n)
    \/ \E key \in Keys : Lookup(key)

Spec == Init /\ [][Next]_vars

(***************************************************************************)
(* SpecConc: goroutines share the ring; every statement that touches the   *)
(* ring, the hasher or the mutex is a step of its own.                     *)
(***************************************************************************)
\* the names and weights the goroutines add and remove nodes with
ConcNames == {str_a, str_b}
ConcWeights == {5, defaultWeight}

Writers == {"AddWithWeight", "Remove"}
Readers == {"LookupAll", "List"}

\* g is between acquiring and releasing the mutex
InCritical(g) == pc[g] \notin {"idle", "Lock", "RLock"}

\* g is inside computeHash: between its Reset and the return of its Sum64
InComputeHash(g) == pc[g] \in {"WriteLoad", "WriteStore", "Sum64"}

Goto(g, label) == pc' = [pc EXCEPT ![g] = label]

\* a goroutine calls an operation of the ring
Call(g, op, arg, weight) ==
    /\ pc[g] = "idle"
    /\ calls < MaxCalls
    /\ calls' = calls + 1
    /\ local' = [local EXCEPT ![g] = [Idle EXCEPT !.op = op, !.arg = arg,
                                                  !.weight = weight]]
    /\ Goto(g, IF op \in Writers THEN "Lock" ELSE "RLock")
    /\ UNCHANGED <<nodes, hash, last, mutex, allocs>>

\* a Lock that does not wait for the readers
Lock_NoWait(g) ==
    /\ pc[g] = "Lock"
    /\ mutex.writer = None
    /\ mutex' = [mutex EXCEPT !.writer = g]
    /\ Goto(g, "Search")
    /\ UNCHANGED <<nodes, hash, last, local, calls, allocs>>

\* r.mutex.Lock(): waits until no goroutine holds the mutex
Lock(g) ==
    /\ pc[g] = "Lock"
    /\ mutex.writer = None /\ mutex.readers = {}
    /\ mutex' = [mutex EXCEPT !.writer = g]
    /\ Goto(g, "Search")
    /\ UNCHANGED <<nodes, hash, last, local, calls, allocs>>

\* an RLock that does not wait for the writer
RLock_NoWait(g) ==
    /\ pc[g] = "RLock"
    /\ mutex' = [mutex EXCEPT !.readers = @ \cup {g}]
    /\ Goto(g, IF local[g].op = "LookupAll" THEN "Reset" ELSE "ListRead")
    /\ UNCHANGED <<nodes, hash, last, local, calls, allocs>>

\* r.mutex.RLock(): waits until no writer holds the mutex
RLock(g) ==
    /\ pc[g] = "RLock"
    /\ mutex.writer = None
    /\ mutex' = [mutex EXCEPT !.readers = @ \cup {g}]
    /\ Goto(g, IF local[g].op = "LookupAll" THEN "Reset" ELSE "ListRead")
    /\ UNCHANGED <<nodes, hash, last, local, calls, allocs>>

\* ix := sort.Search(len(r.nodes), r.cmp(name)) and the test that follows it
SearchStep(g) ==
    /\ pc[g] = "Search"
    /\ LET ix    == Search(nodes, local[g].arg)
           found == ix < Len(nodes) /\ At(nodes, ix).name = local[g].arg
       IN  /\ local' = [local EXCEPT ![g].ix = ix]
           /\ Goto(g, CASE local[g].op = "AddWithWeight" /\ found -> "SetWeight"
                        [] local[g].op = "AddWithWeight" /\ ~found -> "Reset"
                        [] local[g].op = "Remove" /\ found -> "RemoveCopy"
                        [] OTHER -> "Unlock")
    /\ UNCHANGED <<nodes, hash, last, mutex, calls, allocs>>

\* r.nodes[ix].weight = weight
SetWeight(g) ==
    /\ pc[g] = "SetWeight"
    /\ nodes' = [nodes EXCEPT ![local[g].ix + 1].weight = local[g].weight]
    /\ Goto(g, "Unlock")
    /\ UNCHANGED <<hash, last, mutex, local, calls, allocs>>

\* computeHash: r.hash.Reset()
HashReset(g) ==
    /\ pc[g] = "Reset"
    /\ hash' = Reset(hash)
    /\ Goto(g, "WriteLoad")
    /\ UNCHANGED <<nodes, last, mutex, local, calls, allocs>>

\* computeHash: io.WriteString(r.hash, name) reads the running state ...
HashWriteLoad(g) ==
    /\ pc[g] = "WriteLoad"
    /\ local' = [local EXCEPT ![g].tmp = hash]
    /\ Goto(g, "WriteStore")
    /\ UNCHANGED <<nodes, hash, last, mutex, calls, allocs>>

\* ... and stores it back with the bytes of the string mixed in
HashWriteStore(g) ==
    /\ pc[g] = "WriteStore"
    /\ hash' = WriteString(local[g].tmp, local[g].arg)
    /\ Goto(g, "Sum64")
    /\ UNCHANGED <<nodes, last, mutex, local, calls, allocs>>

\* computeHash: return r.hash.Sum64()
HashSum64(g) ==
    /\ pc[g] = "Sum64"
    /\ local' = [local EXCEPT ![g].sum = Sum64(hash)]
    /\ Goto(g, IF local[g].op = "LookupAll" THEN "Rank" ELSE "AppendNil")
    /\ UNCHANGED <<nodes, hash, last, mutex, calls, allocs>>

\* r.nodes = append(r.nodes, nil)
AppendNil(g) ==
    /\ pc[g] = "AppendNil"
    /\ nodes' = Append(nodes, Nil)
    /\ Goto(g, "CopyUp")
    /\ UNCHANGED <<hash, last, mutex, local, calls, allocs>>

\* copy(r.nodes[ix+1:], r.nodes[ix:])
CopyUp(g) ==
    /\ pc[g] = "CopyUp"
    /\ nodes' = Copy(nodes, local[g].ix + 1, Len(nodes), local[g].ix, Len(nodes))
    /\ Goto(g, "StoreNode")
    /\ UNCHANGED <<hash, last, mutex, local, calls, allocs>>

\* r.nodes[ix] = n
StoreNode(g) ==
    /\ pc[g] = "StoreNode"
    /\ nodes' = [nodes EXCEPT ![local[g].ix + 1] =
                     Node(local[g].arg, local[g].sum, local[g].weight)]
    /\ Goto(g, "Unlock")
    /\ UNCHANGED <<hash, last, mutex, local, calls, allocs>>

\* copy(r.nodes[:ix], r.nodes[:ix+1])
RemoveCopy(g) ==
    /\ pc[g] = "RemoveCopy"
    /\ nodes' = Copy(nodes, 0, local[g].ix, 0, local[g].ix + 1)
    /\ Goto(g, "RemoveTruncate")
    /\ UNCHANGED <<hash, last, mutex, local, calls, allocs>>

\* r.nodes = r.nodes[:len(r.nodes)-1]
RemoveTruncate(g) ==
    /\ pc[g] = "RemoveTruncate"
    /\ nodes' = SubSeq(nodes, 1, Len(nodes) - 1)
    /\ Goto(g, "Unlock")
    /\ UNCHANGED <<hash, last, mutex, local, calls, allocs>>

\* LookupAll: score every node with keyHash, sort, collect the names
Rank(g) ==
    /\ pc[g] = "Rank"
    /\ local' = [local EXCEPT ![g].res =
                     IF \E i \in 1..Len(nodes) : nodes[i] = Nil THEN Panic
                     ELSE Ok(Ranked(nodes, local[g].sum))]
    /\ Goto(g, "RUnlock")
    /\ UNCHANGED <<nodes, hash, last, mutex, calls, allocs>>

\* List: collect the names
ListRead(g) ==
    /\ pc[g] = "ListRead"
    /\ local' = [local EXCEPT ![g].res =
                     IF \E i \in 1..Len(nodes) : nodes[i] = Nil THEN Panic
                     ELSE Ok(ListResult(nodes))]
    /\ Goto(g, "RUnlock")
    /\ UNCHANGED <<nodes, hash, last, mutex, calls, allocs>>

\* defer r.mutex.Unlock(), and the return to the caller
Unlock(g) ==
    /\ pc[g] = "Unlock"
    /\ mutex' = [mutex EXCEPT !.writer = None]
    /\ local' = [local EXCEPT ![g] = Idle]
    /\ Goto(g, "idle")
    /\ UNCHANGED <<nodes, hash, last, calls, allocs>>

\* a return that leaves the read lock held
RUnlock_KeepsLock(g) ==
    /\ pc[g] = "RUnlock"
    /\ local' = [local EXCEPT ![g] = Idle]
    /\ Goto(g, "idle")
    /\ UNCHANGED <<nodes, hash, last, mutex, calls, allocs>>

\* defer r.mutex.RUnlock(), and the return to the caller
RUnlock(g) ==
    /\ pc[g] = "RUnlock"
    /\ mutex' = [mutex EXCEPT !.readers = @ \ {g}]
    /\ local' = [local EXCEPT ![g] = Idle]
    /\ Goto(g, "idle")
    /\ UNCHANGED <<nodes, hash, last, calls, allocs>>

NextConc ==
    \E g \in Goroutines :
        \/ \E name \in ConcNames, weight \in ConcWeights :
               Call(g, "AddWithWeight", name, weight)
        \/ \E name \in ConcNames : Call(g, "Remove", name, 0)
        \/ \E key \in Keys : Call(g, "LookupAll", key, 0)
        \/ Call(g, "List", EmptyString, 0)
        \/ Lock(g)
        \/ RLock(g)
        \/ SearchStep(g)
        \/ SetWeight(g)
        \/ HashReset(g)
        \/ HashWriteLoad(g)
        \/ HashWriteStore(g)
        \/ HashSum64(g)
        \/ AppendNil(g)
        \/ CopyUp(g)
        \/ StoreNode(g)
        \/ RemoveCopy(g)
        \/ RemoveTruncate(g)
        \/ Rank(g)
        \/ ListRead(g)
        \/ Unlock(g)
        \/ RUnlock(g)

SpecConc == Init /\ [][NextConc]_vars

\* the statements a goroutine can be at
Labels ==
    {"idle", "Lock", "RLock", "Search", "SetWeight", "Reset", "WriteLoad",
     "WriteStore", "Sum64", "AppendNil", "CopyUp", "StoreNode", "RemoveCopy",
     "RemoveTruncate", "Rank", "ListRead", "Unlock", "RUnlock"}

\* g is inside an operation and not blocked: Lock waits for the mutex to be
\* free, RLock for the writer to be gone, no other statement waits
Runnable(g) ==
    CASE pc[g] = "idle" -> FALSE
      [] pc[g] = "Lock" -> mutex.writer = None /\ mutex.readers = {}
      [] pc[g] = "RLock" -> mutex.writer = None
      [] OTHER -> TRUE

\* g executes the statement it is at; every statement moves g's pc
Advance(g) ==
    /\ Runnable(g)
    /\ \E l \in Labels \ {pc[g]} : pc' = [pc EXCEPT ![g] = l]

\* g gets the mutex it is waiting for
Acquire(g) == pc[g] \in {"Lock", "RLock"} /\ Advance(g)

\* The Go scheduler runs every runnable goroutine sooner or later (weak
\* fairness of a goroutine's statements), and sync.RWMutex hands the lock to
\* a goroutine blocked in Lock or RLock if it is free again and again: a
\* blocked Lock holds back new readers, and a releasing writer wakes the
\* blocked readers first (strong fairness of the acquisitions).
Fairness ==
    \A g \in Goroutines : WF_pc(Advance(g)) /\ SF_pc(Acquire(g))

SpecConcFair == SpecConc /\ Fairness

(***************************************************************************)
(* SpecScore: computeScore alone, on inputs drawn from its uint64 and      *)
(* float64 domain: the hashes of the model's strings, and node hashes      *)
(* whose combineHashes with the key hash is 0, 1, 2^64 - 1 and the two     *)
(* values around the point where float64(h) rounds up to 2^64.             *)
(***************************************************************************)
\* a ^ b for which combineHashes(a, b) is 1
MixesToOne == U64(\h98, \hd7, \h6a, \h16, \h4d, \h99, \ha7, \h10)
\* ... is 0xFFFFFFFFFFFFFFFF
MixesToMax == U64(\ha8, \hd3, \h95, \hbe, \h4b, \h19, \hcc, \he8)
\* ... is 0xFFFFFFFFFFFFFC00, the least h with float64(h) = 2^64
MixesToRoundsToOne == U64(\h15, \h9b, \h02, \h4b, \h2d, \h4d, \h68, \ha8)
\* ... is 0xFFFFFFFFFFFFFBFF, the greatest h with float64(h) < 2^64
MixesToBelowOne == U64(\h4e, \haf, \h94, \h9b, \h5d, \h49, \h69, \h62)

MixPreimages ==
    {Zero64, MixesToOne, MixesToMax, MixesToRoundsToOne, MixesToBelowOne}

ScoreKeyHashes == {computeHash(FnvOffset64, key) : key \in Keys}

ScoreNodeHashes(keyHash) ==
    {Xor64(keyHash, x) : x \in MixPreimages}
        \cup {computeHash(FnvOffset64, name) : name \in Names}

\* nodeWeight is any float64: negative, zero, 0.5, 1.0
ScoreWeights == {-defaultWeight, 0, 5, defaultWeight}

InitScore ==
    /\ nodes = << >>
    /\ hash = FnvOffset64
    /\ \E keyHash \in ScoreKeyHashes :
           \E nodeHash \in ScoreNodeHashes(keyHash), nodeWeight \in ScoreWeights :
               last = [op |-> "call computeScore", arg |-> <<keyHash, nodeHash>>,
                       w |-> nodeWeight, n |-> 0, pre |-> << >>, res |-> << >>]
    /\ mutex = [writer |-> None, readers |-> {}]
    /\ pc = [g \in Goroutines |-> "idle"]
    /\ local = [g \in Goroutines |-> Idle]
    /\ calls = 0
    /\ allocs = << >>

ComputeScore ==
    /\ last.op = "call computeScore"
    /\ last' = [last EXCEPT !.op = "computeScore",
                            !.res = computeScore(last.arg[1], last.arg[2], last.w)]
    /\ UNCHANGED <<nodes, hash>>
    /\ ConcUnchanged

NextScore == ComputeScore

SpecScore == InitScore /\ [][NextScore]_vars

(***************************************************************************)
(* SpecFair: the loop of TestRing_Lookup/IsBasicallyAccurate on the ring   *)
(* of New(): x at weight 1.0, y and z at 0.5, and one Lookup for each of   *)
(* the keys "n0", "n1", ..., counted per node in allocs.                   *)
(***************************************************************************)
NumKeys == 200
\* the allowed distance from the expected share, in percentage points
FairDelta == 5

str_x == <<120>>
str_y == <<121>>
str_z == <<122>>
str_n == <<110>>

\* strconv.Itoa(i) for i >= 0
RECURSIVE Itoa(_)
Itoa(i) == IF i < 10 THEN <<48 + i>> ELSE Itoa(i \div 10) \o <<48 + (i % 10)>>

\* "n" + strconv.Itoa(i)
TestKey(i) == str_n \o Itoa(i)

\* rv.AddWithWeight("x", 1.0); rv.AddWithWeight("y", 0.5); rv.AddWithWeight("z", 0.5)
FairRing ==
    AddWithWeightNodes(
        AddWithWeightNodes(
            AddWithWeightNodes(<< >>, FnvOffset64, str_x, defaultWeight),
            FnvOffset64, str_y, 5),
        FnvOffset64, str_z, 5)

InitFair ==
    /\ nodes = FairRing
    /\ hash = hashAfter(FnvOffset64, str_z)
    /\ last = [op |-> "AddWithWeight", arg |-> str_z, w |-> 5, n |-> 0,
               pre |-> << >>, res |-> << >>]
    /\ mutex = [writer |-> None, readers |-> {}]
    /\ pc = [g \in Goroutines |-> "idle"]
    /\ local = [g \in Goroutines |-> Idle]
    /\ calls = 0
    /\ allocs = [name \in {str_x, str_y, str_z} |-> 0]

\* node := rv.Lookup("n" + strconv.Itoa(i)); allocs[node]++
TestLookup ==
    /\ calls < NumKeys
    /\ LET node == LookupResult(nodes, hash, TestKey(calls))
       IN  /\ last' = Called("Lookup", TestKey(calls), 0, 0, node)
           /\ allocs' = [allocs EXCEPT ![node.val] = @ + 1]
    /\ hash' = hashAfter(hash, TestKey(calls))
    /\ calls' = calls + 1
    /\ UNCHANGED <<nodes, mutex, pc, local>>

NextFair == TestLookup

SpecFair == InitFair /\ [][NextFair]_vars

(***************************************************************************)
(* Properties.                                                             *)
(***************************************************************************)
Without(names, name) == SelectSeq(names, LAMBDA x : x # name)

Occurrences(ns, name) == Cardinality({i \in 1..Len(ns) : ns[i].name = name})

\* strictly ascending by name
Sorted(ns) ==
    \A i, j \in 1..Len(ns) : i < j => ~StrGeq(ns[i].name, ns[j].name)

\* no nil slot, and strictly ascending by name
WellFormed(ns) ==
    /\ \A i \in 1..Len(ns) : ns[i] # Nil
    /\ Sorted(ns)

RemovedPresent == last.op = "Remove" /\ ContainsResult(last.pre, last.arg)
RemovedAbsent == last.op = "Remove" /\ ~ContainsResult(last.pre, last.arg)

\* C1: Remove(name) of a present name removes exactly that node: List() is the
\* previous List() with the name deleted, and every other node is still there
\* with its weight and hash, in the same relative order.
C1_RemoveExcisesNode ==
    RemovedPresent =>
        /\ ListResult(nodes) = Without(ListResult(last.pre), last.arg)
        /\ \A i \in 1..Len(last.pre) :
               last.pre[i].name # last.arg
                   => \E j \in 1..Len(nodes) : nodes[j] = last.pre[i]

\* C2: removing a present node X leaves Lookup(key) unchanged for every key
\* whose Lookup was not X before the removal.
C2_MinimalDisruption ==
    RemovedPresent =>
        \A key \in Keys :
            LookupResult(last.pre, hash, key) # Ok(last.arg)
                => LookupResult(nodes, hash, key) = LookupResult(last.pre, hash, key)

\* C3: Weight(name) is 0 for every name that is not in the ring.
C3_WeightOfAbsentIsZero ==
    (last.op = "Weight" /\ ~ContainsResult(nodes, last.arg)) => last.res = 0

\* the first n names of LookupAll(key), n capped at the size of the ring
TopOfLookupAll(key, n) ==
    SubSeq(LookupAllResult(nodes, hash, key), 1, Min(n, Len(nodes)))

C5_LookupUsesOwnKeyHash ==
    \A g \in Goroutines :
        /\ (pc[g] = "Rank" /\ local[g].op = "LookupAll")
               => local[g].sum = computeHash(FnvOffset64, local[g].arg)
        /\ (pc[g] = "RUnlock" /\ local[g].op = "LookupAll")
               => local[g].res = Ok(LookupAllResult(nodes, FnvOffset64, local[g].arg))

\* C6: while a writer is between Lock and Unlock no other goroutine is inside
\* an operation's critical section, and a reader inside its critical section
\* sees a node sequence with no nil slot, no duplicate and sorted by name.
C6_MutationsAtomic ==
    \A g \in Goroutines :
        /\ (InCritical(g) /\ local[g].op \in Writers)
               => /\ mutex.writer = g
                  /\ \A h \in Goroutines \ {g} : ~InCritical(h)
        /\ (InCritical(g) /\ local[g].op \in Readers)
               => /\ mutex.writer = None
                  /\ WellFormed(nodes)

\* a writer is in the middle of its splice while a reader waits for the mutex
C6_Witness ==
    \E g, h \in Goroutines :
        /\ pc[g] = "StoreNode"
        /\ ~WellFormed(nodes)
        /\ pc[h] = "RLock"

\* C7: after any sequence of Add, AddWithWeight and Remove calls the node
\* sequence is strictly ascending by name, without duplicates.
C7_SortedInvariant == Sorted(nodes)

C7_Witness ==
    /\ last.op \in {"Add", "AddWithWeight"}
    /\ Len(nodes) = NumNames
    /\ Len(last.pre) = NumNames - 1
    /\ At(nodes, 0).name = last.arg

\* C8: AddWithWeight(name, w) of a present name changes that node's weight to
\* w and nothing else: same length, same names, same hashes, the other nodes
\* untouched, and Weight(name) = w afterwards.
C8_UpdateChangesOnlyWeight ==
    (last.op = "AddWithWeight" /\ ContainsResult(last.pre, last.arg)) =>
        /\ LenResult(nodes) = LenResult(last.pre)
        /\ ListResult(nodes) = ListResult(last.pre)
        /\ \A i \in 1..Len(nodes) :
               /\ nodes[i].hash = last.pre[i].hash
               /\ nodes[i].name # last.arg => nodes[i] = last.pre[i]
        /\ WeightResult(nodes, last.arg) = last.w

C8_Witness ==
    /\ last.op = "AddWithWeight"
    /\ ContainsResult(last.pre, last.arg)
    /\ Len(nodes) >= 2
    /\ WeightResult(last.pre, last.arg) # last.w
    /\ WeightResult(nodes, last.arg) = last.w

\* C9: after Add(x) exactly one node is named x, and an Add of a name that is
\* already present does not change Len().
C9_AddIdempotent ==
    last.op = "Add" =>
        /\ Occurrences(nodes, last.arg) = 1
        /\ ContainsResult(last.pre, last.arg) => Len(nodes) = Len(last.pre)

C9_Witness ==
    /\ last.op = "Add"
    /\ ContainsResult(last.pre, last.arg)
    /\ Len(nodes) >= 2
    /\ Occurrences(nodes, last.arg) = 1

\* C10: Remove(name) of a name that is not present changes nothing: the node
\* sequence, with every weight and hash, and so Len(), are as before.
C10_RemoveAbsentIsNoop ==
    RemovedAbsent =>
        /\ nodes = last.pre
        /\ LenResult(nodes) = LenResult(last.pre)

\* the absent name sorts between two names of the ring
C10_Witness ==
    /\ RemovedAbsent
    /\ Search(last.pre, last.arg) \in 1..(Len(last.pre) - 1)
    /\ nodes = last.pre

\* a >= b on float64: false whenever a NaN is compared
FloatGeq(a, b) == a.kind # "nan" /\ b.kind # "nan" /\ ~FloatGreater(b, a)

\* the node of ns that is named name
NodeNamed(ns, name) == ns[CHOOSE i \in 1..Len(ns) : ns[i].name = name]

\* the score of the node named name for key, from the hash of the key itself
ScoreFor(ns, key, name) ==
    computeScore(computeHash(FnvOffset64, key),
                 NodeNamed(ns, name).hash, NodeNamed(ns, name).weight)

\* how many times name occurs in a list of names
Count(names, name) == Cardinality({i \in 1..Len(names) : names[i] = name})

\* C11: LookupAll(key) is a permutation of List() (as long as Len(), every
\* node name exactly once) ordered by score descending: of two consecutive
\* names the earlier node's score for the key is >= the later node's.
C11_RanksEveryNodeOnce ==
    last.op = "LookupAll" =>
        /\ Len(last.res) = LenResult(nodes)
        /\ \A i \in 1..Len(nodes) : Count(last.res, nodes[i].name) = 1
        /\ \A i \in 1..(Len(last.res) - 1) :
               FloatGeq(ScoreFor(nodes, last.arg, last.res[i]),
                        ScoreFor(nodes, last.arg, last.res[i + 1]))

\* a full ring whose ranking is not the name order and has a strict step
C11_Witness ==
    /\ last.op = "LookupAll"
    /\ Len(last.res) = NumNames
    /\ last.res # ListResult(nodes)
    /\ \E i \in 1..(Len(last.res) - 1) :
           FloatGreater(ScoreFor(nodes, last.arg, last.res[i]),
                        ScoreFor(nodes, last.arg, last.res[i + 1]))

AddedAbsent ==
    last.op \in {"Add", "AddWithWeight"} /\ ~ContainsResult(last.pre, last.arg)

C13_EmptyRingLookupsTotal ==
    Len(nodes) = 0 =>
        /\ last.op = "LookupAll" => last.res = << >>
        /\ last.op = "LookupTopN" => last.res = Ok(<< >>)
        /\ last.op = "Lookup" => last.res = Ok(EmptyString)

\* C14: LookupAll(key) repeated on an unchanged ring returns the identical
\* ordered result, tied nodes included: the result does not depend on what
\* earlier calls left in the hasher, so the same call made again at once, or
\* after a lookup of any other key, returns what the last call returned.
C14_LookupAllDeterministic ==
    last.op = "LookupAll" =>
        /\ LookupAllResult(nodes, hash, last.arg) = last.res
        /\ LookupAllResult(nodes, FnvOffset64, last.arg) = last.res
        /\ \A key \in Keys :
               LookupAllResult(nodes, hashAfter(hash, key), last.arg) = last.res

\* a LookupAll on a full ring in which two nodes tie
C14_Witness ==
    /\ last.op = "LookupAll"
    /\ Len(last.res) = NumNames
    /\ \E i \in 1..(Len(last.res) - 1) :
           /\ FloatGeq(ScoreFor(nodes, last.arg, last.res[i]),
                       ScoreFor(nodes, last.arg, last.res[i + 1]))
           /\ FloatGeq(ScoreFor(nodes, last.arg, last.res[i + 1]),
                       ScoreFor(nodes, last.arg, last.res[i]))

\* C15: when combineHashes(keyHash, nodeHash) is 0 the score is a finite
\* value, not NaN and not an infinity, and every score computed for a
\* positive weight is a finite non-negative number.
C15_ScoreFiniteNonNegative ==
    last.op = "computeScore" =>
        /\ combineHashes(last.arg[1], last.arg[2]) = Zero64
               => last.res.kind = "fin"
        /\ last.w > 0 => (last.res.kind = "fin" /\ last.res.num >= 0)

\* the share of NumKeys, in percent, is within FairDelta points of pct
WithinDelta(count, pct) ==
    /\ 100 * count >= (pct - FairDelta) * NumKeys
    /\ 100 * count <= (pct + FairDelta) * NumKeys

C17_StoredHashIsHashOfName ==
    \A i \in 1..Len(nodes) :
        nodes[i] # Nil => nodes[i].hash = computeHash(FnvOffset64, nodes[i].name)

\* a node is in the ring while a lookup is inside computeHash, the shared
\* hasher holding the running hash of the lookup's key
C17_Witness ==
    /\ Len(nodes) >= 1
    /\ \A i \in 1..Len(nodes) : nodes[i] # Nil
    /\ \E g \in Goroutines :
           /\ pc[g] = "Sum64"
           /\ local[g].op = "LookupAll"
           /\ \A i \in 1..Len(nodes) : hash # nodes[i].hash

\* the position of name in a list of names
Position(names, name) == CHOOSE p \in 1..Len(names) : names[p] = name

Positive(s) == FloatGreater(s, Fin(0, 1))

\* C18: when the hash of the lookup key equals the stored hash of a node
\* (the key is a node's name), combineHashes is 0 for that node and its
\* score is 0: LookupAll ranks it after every node whose score is positive,
\* and Lookup returns it only if no other node has a positive score.
C18_OwnNameScoresZero ==
    \A i \in 1..Len(nodes) :
        nodes[i].hash = computeHash(FnvOffset64, last.arg) =>
            /\ combineHashes(computeHash(FnvOffset64, last.arg), nodes[i].hash) = Zero64
            /\ ~Positive(ScoreFor(nodes, last.arg, nodes[i].name))
            /\ FloatGeq(ScoreFor(nodes, last.arg, nodes[i].name), Fin(0, 1))
            /\ last.op = "LookupAll" =>
                   \A j \in 1..Len(nodes) :
                       Positive(ScoreFor(nodes, last.arg, nodes[j].name))
                           => Position(last.res, nodes[j].name)
                                  < Position(last.res, nodes[i].name)
            /\ (last.op = "Lookup" /\ last.res = Ok(nodes[i].name)) =>
                   \A j \in 1..Len(nodes) :
                       ~Positive(ScoreFor(nodes, last.arg, nodes[j].name))

\* the key is the name of a node of a full ring of positive weights, and
\* LookupAll ranks that node last
C18_Witness ==
    /\ last.op = "LookupAll"
    /\ Len(nodes) = NumNames
    /\ \A j \in 1..Len(nodes) : nodes[j].weight > 0
    /\ ContainsResult(nodes, last.arg)
    /\ last.res[NumNames] = last.arg

\* g holds the mutex, exclusively or shared
Holds(g) == mutex.writer = g \/ g \in mutex.readers

\* C19: no goroutine asks for the ring's mutex while it holds it, every
\* operation has released the mutex when it returns, and under fair
\* scheduling every operation that was called returns (no deadlock).
C19_NoDeadlock ==
    /\ [](\A g \in Goroutines : pc[g] \in {"idle", "Lock", "RLock"} => ~Holds(g))
    /\ \A g \in Goroutines : [](pc[g] # "idle" => <>(pc[g] = "idle"))

\* a writer is blocked in Lock by a reader, and with the calls used up
\* nothing else will run
C19_Witness ==
    \E g, h \in Goroutines :
        /\ pc[g] = "Lock"
        /\ h \in mutex.readers
        /\ calls = MaxCalls

=============================================================================
